---- MODULE Spec2Model ----
(***************************************************************************)
(* rustyknife, src/rfc5321.rs: the SMTP envelope-address recognizer.       *)
(*                                                                         *)
(* Byte strings are sequences of integers 0..255.  Every parser takes the  *)
(* remaining input and returns a record                                    *)
(*     [k |-> "ok", rem |-> unconsumed input, val |-> parsed value]        *)
(*     [k |-> "err"]      an ordinary no-match (nom's Err::Error)          *)
(*     [k |-> "panic"]    the call aborts (index out of range, unwrap of   *)
(*                        an Err)                                          *)
(* The input type is CBS (CompleteByteSlice): a short input is a no-match, *)
(* never Incomplete.                                                       *)
(***************************************************************************)
EXTENDS Integers, Sequences, FiniteSets, TLC

VARIABLES input, recv, op, result, n

vars == <<input, recv, op, result, n>>

(***************************************************************************)
(* Bytes and byte classes.                                                 *)
(***************************************************************************)
Byte == 0..255

Digit == 48..57
Alpha == (65..90) \cup (97..122)
AlphaNum == Alpha \cup Digit
HexDigit == Digit \cup (65..70) \cup (97..102)

\* nom::is_alphanumeric / is_digit / is_hex_digit
is_alphanumeric(c) == c \in AlphaNum
is_digit(c) == c \in Digit
is_hex_digit(c) == c \in HexDigit

Take(i, m) == SubSeq(i, 1, m)
Drop(i, m) == SubSeq(i, m + 1, Len(i))

Min(S) == CHOOSE x \in S : \A y \in S : x <= y

\* The number of leading bytes of i that belong to the class S.
PrefixLen(S, i) ==
    LET bad == {j \in 1..Len(i) : i[j] \notin S}
    IN  IF bad = {} THEN Len(i) ELSE Min(bad) - 1

Ok(rem, val) == [k |-> "ok", rem |-> rem, val |-> val]
Err == [k |-> "err"]
Panic == [k |-> "panic"]

None == <<>>
Some(v) == <<v>>

(***************************************************************************)
(* The nom 4 combinators the grammar is written with.                      *)
(***************************************************************************)
\* take!(m)
take(m, i) == IF Len(i) < m THEN Err ELSE Ok(Drop(i, m), Take(i, m))

\* tag!(t)
tag(t, i) ==
    IF Len(i) >= Len(t) /\ Take(i, Len(t)) = t THEN Ok(Drop(i, Len(t)), t) ELSE Err

\* One byte pair of nom's compare_no_case: letters compare with bit 0x20
\* forced, every other byte compares exactly.
FoldEq(a, b) ==
    IF a \in Alpha /\ b \in Alpha
    THEN (IF a >= 97 THEN a - 32 ELSE a) = (IF b >= 97 THEN b - 32 ELSE b)
    ELSE a = b

\* tag_no_case!(t)
tag_no_case(t, i) ==
    IF Len(i) >= Len(t) /\ \A j \in 1..Len(t) : FoldEq(i[j], t[j])
    THEN Ok(Drop(i, Len(t)), Take(i, Len(t)))
    ELSE Err

\* take_while1!(c in S)
take_while1(S, i) ==
    LET m == PrefixLen(S, i)
    IN  IF m = 0 THEN Err ELSE Ok(Drop(i, m), Take(i, m))

\* take_while_m_n!(lo, hi, c in S)
take_while_m_n(lo, hi, S, i) ==
    LET p == PrefixLen(S, i)
        m == IF p > hi THEN hi ELSE p
    IN  IF m < lo THEN Err ELSE Ok(Drop(i, m), Take(i, m))

\* recognize!(child): the consumed slice instead of the child's value.
recognize(r, i) ==
    IF r.k = "ok" THEN Ok(r.rem, Take(i, Len(i) - Len(r.rem))) ELSE r

\* opt!(child): a no-match becomes None without consuming.
opt(r, i) ==
    IF r.k = "err" THEN Ok(i, None)
    ELSE IF r.k = "ok" THEN Ok(r.rem, Some(r.val))
    ELSE r

\* alt!(a | b): b is tried only when a is a no-match; once a matched, b is
\* never tried, whatever the enclosing rule does next.
alt(a, b) == IF a.k = "err" THEN b ELSE a

\* many0!(child): zero or more, stops at the first no-match.
RECURSIVE many0_from(_, _, _)
many0_from(P(_), i, acc) ==
    LET r == P(i)
    IN  IF r.k = "err" THEN Ok(i, acc)
        ELSE IF r.k = "panic" THEN r
        ELSE IF r.rem = i THEN (IF i = <<>> THEN Ok(i, acc) ELSE Err)
        ELSE many0_from(P, r.rem, Append(acc, r.val))

many0(P(_), i) == many0_from(P, i, <<>>)

\* many1!(child)
many1(P(_), i) ==
    LET r == P(i)
    IN  IF r.k # "ok" THEN r
        ELSE IF r.rem = i THEN Err
        ELSE many0_from(P, r.rem, <<r.val>>)

\* many_m_n!(lo, hi, child)
RECURSIVE many_m_n_from(_, _, _, _, _)
many_m_n_from(lo, hi, P(_), i, acc) ==
    IF Len(acc) = hi THEN Ok(i, acc)
    ELSE LET r == P(i)
         IN  IF r.k = "panic" THEN r
             ELSE IF r.k = "err" \/ r.rem = i
                  THEN (IF Len(acc) < lo THEN Err ELSE Ok(i, acc))
             ELSE many_m_n_from(lo, hi, P, r.rem, Append(acc, r.val))

many_m_n(lo, hi, P(_), i) == many_m_n_from(lo, hi, P, i, <<>>)

\* Variant of exact: the end-of-input check is left out.
exact_prefix(r) == r

\* exact!(child): the child's result if it consumed the whole input.
exact(r) == IF r.k = "ok" /\ r.rem # <<>> THEN Err ELSE r

(***************************************************************************)
(* Standard-library conversions.                                           *)
(***************************************************************************)
Cont == 128..191

\* The length of the well-formed UTF-8 sequence at the head of b, 0 if none.
Utf8Lead(b) ==
    LET c == b[1]
        L == Len(b)
    IN  IF c < 128 THEN 1
        ELSE IF c \in 194..223
             THEN (IF L >= 2 /\ b[2] \in Cont THEN 2 ELSE 0)
        ELSE IF c \in 224..239
             THEN (IF L >= 3 /\ b[3] \in Cont
                      /\ b[2] \in (IF c = 224 THEN 160..191
                                   ELSE IF c = 237 THEN 128..159 ELSE Cont)
                   THEN 3 ELSE 0)
        ELSE IF c \in 240..244
             THEN (IF L >= 4 /\ b[3] \in Cont /\ b[4] \in Cont
                      /\ b[2] \in (IF c = 240 THEN 144..191
                                   ELSE IF c = 244 THEN 128..143 ELSE Cont)
                   THEN 4 ELSE 0)
        ELSE 0

\* std::str::from_utf8(b).is_ok()
RECURSIVE Utf8Valid(_)
Utf8Valid(b) ==
    IF b = <<>> THEN TRUE
    ELSE LET m == Utf8Lead(b) IN IF m = 0 THEN FALSE ELSE Utf8Valid(Drop(b, m))

\* str::from_utf8(b).unwrap(): the text (kept as its bytes), or a panic.
from_utf8_unwrap(b) == IF Utf8Valid(b) THEN [k |-> "ok", val |-> b] ELSE Panic

RECURSIVE DecValue(_)
DecValue(s) == IF s = <<>> THEN 0 ELSE 10 * DecValue(Take(s, Len(s) - 1)) + (s[Len(s)] - 48)

\* <u8 as FromStr>::from_str: an optional '+', decimal digits, at most 255.
parse_u8(s) ==
    LET d == IF s # <<>> /\ s[1] = 43 THEN Drop(s, 1) ELSE s
    IN  IF d = <<>> \/ PrefixLen(Digit, d) # Len(d) THEN [k |-> "err"]
        ELSE IF DecValue(d) > 255 THEN [k |-> "err"]
        ELSE [k |-> "ok", val |-> DecValue(d)]

\* The decimal text of a number, as Display writes it.
RECURSIVE DecText(_)
DecText(v) == IF v < 10 THEN <<48 + v>> ELSE Append(DecText(v \div 10), 48 + (v % 10))

HexVal(c) == IF c \in Digit THEN c - 48 ELSE IF c \in 65..70 THEN c - 55 ELSE c - 87

RECURSIVE NumValue(_, _)
NumValue(s, radix) ==
    IF s = <<>> THEN 0
    ELSE radix * NumValue(Take(s, Len(s) - 1), radix) + HexVal(s[Len(s)])

\* std::net::parser::Parser::read_number(radix, Some(maxd), allow_zero_prefix)
\* at position pos (1-based) of s; maxv is the target type's largest value.
read_number(s, pos, radix, maxd, allow_zero_prefix, maxv) ==
    LET rest == Drop(s, pos - 1)
        cnt == PrefixLen(IF radix = 16 THEN HexDigit ELSE Digit, rest)
        v == NumValue(Take(rest, cnt), radix)
    IN  IF cnt = 0 \/ cnt > maxd THEN [ok |-> FALSE]
        ELSE IF v > maxv THEN [ok |-> FALSE]
        ELSE IF ~allow_zero_prefix /\ rest[1] = 48 /\ cnt > 1 THEN [ok |-> FALSE]
        ELSE [ok |-> TRUE, pos |-> pos + cnt, val |-> v]

\* Parser::read_separator(sep, index, inner): the separator is read before
\* every element but the first.
SepPos(s, pos, sep, index) ==
    IF index = 0 THEN pos
    ELSE IF pos <= Len(s) /\ s[pos] = sep THEN pos + 1
    ELSE 0

\* let v = ...; F(v)
Let(v, F(_)) == F(v)

\* Parser::read_ipv4_addr
RECURSIVE read_ipv4_from(_, _, _, _)
read_ipv4_from(s, pos, index, acc) ==
    IF index = 4 THEN [ok |-> TRUE, pos |-> pos, val |-> acc]
    ELSE Let(SepPos(s, pos, 46, index),
             LAMBDA p :
                 IF p = 0 THEN [ok |-> FALSE]
                 ELSE Let(read_number(s, p, 10, 3, FALSE, 255),
                          LAMBDA r :
                              IF ~r.ok THEN [ok |-> FALSE]
                              ELSE read_ipv4_from(s, r.pos, index + 1, Append(acc, r.val))))

read_ipv4_addr(s, pos) == read_ipv4_from(s, pos, 0, <<>>)

\* read_groups of Parser::read_ipv6_addr: up to limit 16-bit groups, the last
\* two of which may be written as an embedded IPv4 address.
RECURSIVE read_groups_from(_, _, _, _, _)
read_groups_from(s, pos, index, limit, acc) ==
    IF index >= limit THEN [pos |-> pos, groups |-> acc, ipv4 |-> FALSE]
    ELSE Let(SepPos(s, pos, 58, index),
             LAMBDA p :
                 Let(IF index < limit - 1 /\ p # 0 THEN read_ipv4_addr(s, p) ELSE [ok |-> FALSE],
                     LAMBDA v4 :
                         IF v4.ok
                         THEN [pos |-> v4.pos,
                               groups |-> acc \o <<v4.val[1] * 256 + v4.val[2],
                                                   v4.val[3] * 256 + v4.val[4]>>,
                               ipv4 |-> TRUE]
                         ELSE Let(IF p # 0 THEN read_number(s, p, 16, 4, TRUE, 65535)
                                  ELSE [ok |-> FALSE],
                                  LAMBDA g :
                                      IF g.ok
                                      THEN read_groups_from(s, g.pos, index + 1, limit,
                                                            Append(acc, g.val))
                                      ELSE [pos |-> pos, groups |-> acc, ipv4 |-> FALSE])))

read_groups(s, pos, limit) == read_groups_from(s, pos, 0, limit, <<>>)

Zeros(m) == [j \in 1..m |-> 0]

\* <Ipv6Addr as FromStr>::from_str: the eight groups, or an error; the whole
\* text must be consumed.
Ipv6Addr_from_str(s) ==
    Let(read_groups(s, 1, 8),
        LAMBDA head :
            IF Len(head.groups) = 8
            THEN (IF head.pos = Len(s) + 1 THEN [k |-> "ok", val |-> head.groups]
                  ELSE [k |-> "err"])
            ELSE IF head.ipv4 \/ ~(head.pos + 1 <= Len(s) /\ s[head.pos] = 58
                                   /\ s[head.pos + 1] = 58)
            THEN [k |-> "err"]
            ELSE Let(read_groups(s, head.pos + 2, 8 - (Len(head.groups) + 1)),
                     LAMBDA tail :
                         IF tail.pos = Len(s) + 1
                         THEN [k |-> "ok",
                               val |-> head.groups
                                       \o Zeros(8 - Len(head.groups) - Len(tail.groups))
                                       \o tail.groups]
                         ELSE [k |-> "err"]))

(***************************************************************************)
(* The value model (src/rfc5321.rs, lines 13-111 and 166-167).               *)
(***************************************************************************)
EsmtpParam(name, value) == [name |-> name, value |-> value]

Atom(s) == [t |-> "Atom", s |-> s]
Quoted(s) == [t |-> "Quoted", s |-> s]

Domain(s) == [t |-> "Domain", s |-> s]
DomainPart_AddressLiteral(a) == [t |-> "AddressLiteral", lit |-> a]

IpAddr_V4(o) == [t |-> "IpAddr", v |-> "V4", a |-> o]
IpAddr_V6(g) == [t |-> "IpAddr", v |-> "V6", a |-> g]
Tagged(tg, value) == [t |-> "Tagged", tag |-> tg, value |-> value]
FreeForm(s) == [t |-> "FreeForm", s |-> s]

Mailbox(lp, dp) == [lp |-> lp, dp |-> dp]

Path_Mailbox(m) == [t |-> "Mailbox", m |-> m]
PostMaster == [t |-> "PostMaster"]
ReversePath_Mailbox(m) == [t |-> "Mailbox", m |-> m]
Null == [t |-> "Null"]

(***************************************************************************)
(* Collaborators outside src/rfc5321.rs: util::ascii_to_string,            *)
(* rfc5234::wsp, rfc5322::atext.                                           *)
(***************************************************************************)
\* Bytes known to be ASCII become text unchanged; any other byte becomes
\* U+FFFD.
ascii_to_string(b) == [j \in 1..Len(b) |-> IF b[j] < 128 THEN b[j] ELSE 65533]

\* WSP: a space or a horizontal tab.
wsp(i) ==
    LET r == take(1, i)
    IN  IF r.k = "ok" /\ r.val[1] \notin {32, 9} THEN Err ELSE r

\* atext: ALPHA / DIGIT / one of !#$%&'*+-/=?^_`{|}~
AText == AlphaNum \cup {33, 35, 36, 37, 38, 39, 42, 43, 45, 47, 61, 63, 94, 95, 96, 123, 124, 125, 126}

\* The atom rule the grammar imports (rfc5322::atext as atom): a non-empty
\* run of atom-text bytes.
atom(i) == take_while1(AText, i)

(***************************************************************************)
(* The grammar rules (src/rfc5321.rs, lines 175-387).                        *)
(***************************************************************************)
\* do_parse!(r >> P >> ...): r, then P on what r left; r's value is dropped.
then(r, P(_)) == IF r.k = "ok" THEN P(r.rem) ELSE r

\* do_parse!(x: r >> ...): r, then F on r's result (its value and what it
\* left).
bind(r, F(_)) == IF r.k = "ok" THEN F(r) ELSE r

\* map!(r, F)
map(r, F(_)) == IF r.k = "ok" THEN Ok(r.rem, F(r.val)) ELSE r

\* .unwrap() of t, then F on the value.
unwrap(t, F(_)) == IF t.k = "panic" THEN Panic ELSE F(t.val)

\* map_res!(child, closure): v is what the closure returned for a child that
\* left rem.
map_res(rem, v) == IF v.k = "ok" THEN Ok(rem, v.val) ELSE v

\* map!(child, |x| std::str::from_utf8(&x).unwrap())
map_from_utf8_unwrap(r) ==
    bind(r, LAMBDA x : unwrap(from_utf8_unwrap(x.val), LAMBDA t : Ok(x.rem, t)))

\* verify!(take!(1), |x: CBS| is_alphanumeric(x.0[0]))
_alphanum(i) ==
    bind(take(1, i),
         LAMBDA x : IF Len(x.val) < 1 THEN Panic
                    ELSE IF is_alphanumeric(x.val[1]) THEN x
                    ELSE Err)

esmtp_keyword(i) ==
    map_from_utf8_unwrap(
        recognize(then(_alphanum(i), LAMBDA j : many0(_alphanum, j)), i))

EsmtpValueByte == (33..60) \cup (62..126)

esmtp_value(i) == map_from_utf8_unwrap(take_while1(EsmtpValueByte, i))

esmtp_param(i) ==
    bind(esmtp_keyword(i),
         LAMBDA name :
             map(opt(then(tag(<<61>>, name.rem), esmtp_value), name.rem),
                 LAMBDA value : EsmtpParam(name.val, value)))

_esmtp_params(i) ==
    bind(esmtp_param(i),
         LAMBDA a :
             map(many0(LAMBDA j : then(many1(wsp, j), esmtp_param), a.rem),
                 LAMBDA b : <<a.val>> \o b))

LdhByte == AlphaNum \cup {45}

\* Variant of ldh_str: the last byte is not looked at.
ldh_str_any(i) == take_while1(LdhByte, i)

ldh_str(i) ==
    bind(take_while1(LdhByte, i),
         LAMBDA x : IF x.val[Len(x.val)] = 45 THEN Err ELSE x)

let_dig(i) ==
    bind(take(1, i),
         LAMBDA c : IF Len(c.val) < 1 THEN Panic
                    ELSE IF is_alphanumeric(c.val[1]) THEN c
                    ELSE Err)

sub_domain(i) == recognize(then(let_dig(i), LAMBDA j : opt(ldh_str(j), j)), i)

domain(i) ==
    map(recognize(
            then(sub_domain(i),
                 LAMBDA j : many0(LAMBDA l : then(tag(<<46>>, l), sub_domain), j)), i),
        LAMBDA d : Domain(ascii_to_string(d)))

at_domain(i) == then(tag(<<64>>, i), domain)

a_d_l(i) ==
    then(at_domain(i), LAMBDA j : many0(LAMBDA l : then(tag(<<44>>, l), at_domain), j))

dot_string(i) ==
    recognize(
        then(atom(i), LAMBDA j : many0(LAMBDA l : then(tag(<<46>>, l), atom), j)), i)

QtextByte == (32..33) \cup (35..91) \cup (93..126)

qtext_smtp(i) ==
    bind(take(1, i),
         LAMBDA x : IF Len(x.val) < 1 THEN Panic
                    ELSE IF x.val[1] \in QtextByte THEN Ok(x.rem, x.val[1])
                    ELSE Err)

QuotedPairByte == 32..126

\* Variant of quoted_pair_smtp: the byte after the backslash is indexed
\* without the length check that take!(1) makes.
quoted_pair_smtp_unchecked(i) ==
    then(tag(<<92>>, i),
         LAMBDA j : IF j = <<>> THEN Panic
                    ELSE IF j[1] \in QuotedPairByte THEN Ok(Drop(j, 1), j[1])
                    ELSE Err)

quoted_pair_smtp(i) ==
    then(tag(<<92>>, i),
         LAMBDA j :
             bind(take(1, j),
                  LAMBDA x : IF Len(x.val) < 1 THEN Panic
                             ELSE IF x.val[1] \in QuotedPairByte THEN Ok(x.rem, x.val[1])
                             ELSE Err))

qcontent_smtp(i) == alt(qtext_smtp(i), quoted_pair_smtp(i))

quoted_string(i) ==
    then(tag(<<34>>, i),
         LAMBDA j :
             bind(many0(qcontent_smtp, j),
                  LAMBDA qc : map(tag(<<34>>, qc.rem), LAMBDA q : qc.val)))

local_part(i) ==
    alt(map(dot_string(i), LAMBDA s : Atom(ascii_to_string(s))),
        map(quoted_string(i), Quoted))

\* Variant of _ip_int: the value is narrowed to u8 with "as" (modulo 256)
\* instead of being parsed as a u8.
_ip_int_wrap(i) ==
    map(take_while_m_n(1, 3, Digit, i), LAMBDA ip : DecValue(ip) % 256)

_ip_int(i) ==
    bind(take_while_m_n(1, 3, Digit, i),
         LAMBDA ip : map_res(ip.rem, unwrap(from_utf8_unwrap(ip.val), parse_u8)))

_ipv4_literal(i) ==
    bind(_ip_int(i),
         LAMBDA a :
             bind(many_m_n(3, 3, LAMBDA j : then(tag(<<46>>, j), _ip_int), a.rem),
                  LAMBDA b : IF Len(b.val) < 3 THEN Panic
                             ELSE Ok(b.rem, IpAddr_V4(<<a.val, b.val[1], b.val[2], b.val[3]>>))))

Ipv6Byte == HexDigit \cup {58, 46}

_ipv6_literal(i) ==
    map(bind(then(tag_no_case(<<73, 80, 118, 54, 58>>, i),
                  LAMBDA j : take_while1(Ipv6Byte, j)),
             LAMBDA addr :
                 map_res(addr.rem, unwrap(from_utf8_unwrap(addr.val), Ipv6Addr_from_str))),
        IpAddr_V6)

DcontentByte == (33..90) \cup (94..126)

dcontent(i) == map_from_utf8_unwrap(take_while1(DcontentByte, i))

general_address_literal(i) ==
    bind(ldh_str(i),
         LAMBDA tg :
             then(tag(<<58>>, tg.rem),
                  LAMBDA j :
                      bind(dcontent(j),
                           LAMBDA value :
                               unwrap(from_utf8_unwrap(tg.val),
                                      LAMBDA t : Ok(value.rem, Tagged(t, value.val))))))

\* The result that left less input, the first one on a tie; a is kept when
\* it aborted, b when a did not match.
longest(a, b) ==
    IF a.k # "ok" THEN alt(a, b)
    ELSE IF b.k = "ok" /\ Len(b.rem) < Len(a.rem) THEN b ELSE a

\* Variant of _inner_address_literal: the alternative that consumes the most
\* input wins, instead of the first one that matches.
_inner_address_literal_longest(i) ==
    longest(longest(_ipv4_literal(i), _ipv6_literal(i)), general_address_literal(i))

_inner_address_literal(i) ==
    alt(_ipv4_literal(i), alt(_ipv6_literal(i), general_address_literal(i)))

\* The text up to the first ']' of i as a FreeForm, when there is a ']'.
free_form(i) ==
    IF PrefixLen(Byte \ {93}, i) < Len(i)
    THEN Ok(Drop(i, PrefixLen(Byte \ {93}, i) + 1), FreeForm(Take(i, PrefixLen(Byte \ {93}, i))))
    ELSE Err

\* Variant of address_literal: bracketed text that matches no formal
\* alternative is kept as FreeForm.
address_literal_freeform(i) ==
    then(tag(<<91>>, i),
         LAMBDA j :
             alt(bind(_inner_address_literal(j),
                      LAMBDA lit : map(tag(<<93>>, lit.rem), LAMBDA b : lit.val)),
                 free_form(j)))

address_literal(i) ==
    then(tag(<<91>>, i),
         LAMBDA j :
             bind(_inner_address_literal(j),
                  LAMBDA lit : map(tag(<<93>>, lit.rem), LAMBDA b : lit.val)))

\* Variant of mailbox: the domain part is a domain only, never an address
\* literal.
mailbox_domain_only(i) ==
    bind(local_part(i),
         LAMBDA lp :
             then(tag(<<64>>, lp.rem),
                  LAMBDA j : map(domain(j), LAMBDA dp : Mailbox(lp.val, dp))))

mailbox(i) ==
    bind(local_part(i),
         LAMBDA lp :
             then(tag(<<64>>, lp.rem),
                  LAMBDA j :
                      map(alt(domain(j), map(address_literal(j), DomainPart_AddressLiteral)),
                          LAMBDA dp : Mailbox(lp.val, dp))))

path(i) ==
    then(tag(<<60>>, i),
         LAMBDA j :
             then(opt(then(a_d_l(j), LAMBDA l : tag(<<58>>, l)), j),
                  LAMBDA q :
                      bind(mailbox(q),
                           LAMBDA m : map(tag(<<62>>, m.rem), LAMBDA g : m.val))))

reverse_path(i) ==
    alt(map(path(i), ReversePath_Mailbox),
        map(tag(<<60, 62>>, i), LAMBDA z : Null))

\* opt!(do_parse!(tag!(" ") >> p: _esmtp_params >> (p))), then
\* params.unwrap_or_default()
CommandParams(i) ==
    map(opt(then(tag(<<32>>, i), _esmtp_params), i),
        LAMBDA params : IF params = None THEN <<>> ELSE params[1])

_mail_command(i) ==
    bind(then(tag_no_case(<<77, 65, 73, 76, 32, 70, 82, 79, 77, 58>>, i), reverse_path),
         LAMBDA addr :
             map(CommandParams(addr.rem), LAMBDA params : <<addr.val, params>>))

\* Variant of _rcpt_command: the postmaster path is matched with tag!, in
\* lower case only.
_rcpt_command_case(i) ==
    then(tag_no_case(<<82, 67, 80, 84, 32, 84, 79, 58>>, i),
         LAMBDA j :
             bind(alt(map(tag(<<60, 112, 111, 115, 116, 109, 97, 115, 116, 101, 114, 62>>, j),
                          LAMBDA z : PostMaster),
                      map(path(j), Path_Mailbox)),
                  LAMBDA addr :
                      map(CommandParams(addr.rem), LAMBDA params : <<addr.val, params>>)))

_rcpt_command(i) ==
    then(tag_no_case(<<82, 67, 80, 84, 32, 84, 79, 58>>, i),
         LAMBDA j :
             bind(alt(map(tag_no_case(<<60, 112, 111, 115, 116, 109, 97, 115, 116, 101, 114, 62>>, j),
                          LAMBDA z : PostMaster),
                      map(path(j), Path_Mailbox)),
                  LAMBDA addr :
                      map(CommandParams(addr.rem), LAMBDA params : <<addr.val, params>>)))

(***************************************************************************)
(* The public operations.                                                  *)
(***************************************************************************)
mail_command(i) == exact(_mail_command(i))

rcpt_command(i) == exact(_rcpt_command(i))

\* .is_ok(); an abort is kept apart from false.
is_ok(r) == IF r.k = "panic" THEN Panic ELSE [k |-> "ok", val |-> (r.k = "ok")]

\* exact!(CBS(i), mailbox).is_ok()
validate_address(i) == is_ok(exact(mailbox(i)))

\* let (rem, parsed) = r.map_err(|_| ())?;
\* if rem.is_empty() { Ok(parsed) } else { Err(()) }
rem_is_empty(r) ==
    IF r.k = "panic" THEN Panic
    ELSE IF r.k = "ok" /\ r.rem = <<>> THEN [k |-> "ok", val |-> r.val]
    ELSE Err

\* Variant of upgrade: the remaining input is not looked at.
upgrade_prefix(self) ==
    IF self.t = "FreeForm"
    THEN rem_is_empty(bind(_inner_address_literal(self.s), LAMBDA x : Ok(<<>>, x.val)))
    ELSE Err

\* AddressLiteral::upgrade(&self) -> Result<Self, ()>
upgrade(self) ==
    IF self.t = "FreeForm" THEN rem_is_empty(_inner_address_literal(self.s)) ELSE Err

\* <AddressLiteral as FromStr>::from_str
from_str(s) == rem_is_empty(address_literal(s))

(***************************************************************************)
(* Rendering.                                                              *)
(***************************************************************************)
RECURSIVE quote_localpart(_)
quote_localpart(in) ==
    IF in = <<>> THEN <<>>
    ELSE (IF in[1] \in {34, 92} THEN <<92, in[1]>> ELSE <<in[1]>>)
         \o quote_localpart(Drop(in, 1))

\* <LocalPart as Display>::fmt
Display_LocalPart(lp) == IF lp.t = "Atom" THEN lp.s ELSE quote_localpart(lp.s)

\* <Ipv4Addr as Display>::fmt
Display_Ipv4Addr(o) ==
    DecText(o[1]) \o <<46>> \o DecText(o[2]) \o <<46>> \o DecText(o[3]) \o <<46>> \o DecText(o[4])

\* Lower-case hexadecimal text without leading zeros ({:x}).
RECURSIVE HexText(_)
HexText(v) ==
    LET d == v % 16
        c == IF d < 10 THEN 48 + d ELSE 87 + d
    IN  IF v < 16 THEN <<c>> ELSE Append(HexText(v \div 16), c)

\* Groups joined by ':'.
RECURSIVE fmt_subslice(_)
fmt_subslice(g) ==
    IF g = <<>> THEN <<>>
    ELSE IF Len(g) = 1 THEN HexText(g[1])
    ELSE HexText(g[1]) \o <<58>> \o fmt_subslice(Drop(g, 1))

\* The length of the run of zero groups that starts at index j of g.
ZeroRun(g, j) == PrefixLen({0}, Drop(g, j - 1))

\* <Ipv6Addr as Display>::fmt: an IPv4-mapped address as ::ffff:a.b.c.d,
\* otherwise the first longest run of two or more zero groups becomes "::".
Display_Ipv6Addr(g) ==
    IF Take(g, 6) = <<0, 0, 0, 0, 0, 65535>>
    THEN <<58, 58, 102, 102, 102, 102, 58>> \o DecText(g[7] \div 256) \o <<46>> \o DecText(g[7] % 256)
         \o <<46>> \o DecText(g[8] \div 256) \o <<46>> \o DecText(g[8] % 256)
    ELSE Let(CHOOSE j \in 1..8 :
                 \A l \in 1..8 : ZeroRun(g, l) < ZeroRun(g, j)
                                 \/ (ZeroRun(g, l) = ZeroRun(g, j) /\ j <= l),
             LAMBDA best :
                 IF ZeroRun(g, best) > 1
                 THEN fmt_subslice(Take(g, best - 1)) \o <<58, 58>>
                      \o fmt_subslice(Drop(g, best - 1 + ZeroRun(g, best)))
                 ELSE fmt_subslice(g))

\* <AddressLiteral as Display>::fmt
Display_AddressLiteral(a) ==
    IF a.t = "IpAddr"
    THEN (IF a.v = "V4"
          THEN <<91>> \o Display_Ipv4Addr(a.a) \o <<93>>
          ELSE <<91, 73, 80, 118, 54, 58>> \o Display_Ipv6Addr(a.a) \o <<93>>)
    ELSE IF a.t = "Tagged" THEN <<91>> \o a.tag \o <<58>> \o a.value \o <<93>>
    ELSE <<91>> \o a.s \o <<93>>

\* <DomainPart as Display>::fmt
Display_DomainPart(dp) == IF dp.t = "Domain" THEN dp.s ELSE Display_AddressLiteral(dp.lit)

\* <Mailbox as Display>::fmt
Display_Mailbox(m) == Display_LocalPart(m.lp) \o <<64>> \o Display_DomainPart(m.dp)

(***************************************************************************)
(* The state machine.  A caller holds a byte buffer (input) and a parsed   *)
(* value (recv); each public operation is one action that records its name *)
(* in op and what it returned in result.  n counts the edits made to the   *)
(* buffer.                                                                 *)
(***************************************************************************)
NoValue == [t |-> "none"]

\* The caller rewrites the buffer: the previous call's result is dropped.
SetInput(new) ==
    /\ input' = new
    /\ op' = "idle"
    /\ result' = <<>>

\* pub fn mail_command(i: &[u8])
MailCommand ==
    /\ op' = "mail_command"
    /\ result' = mail_command(input)
    /\ UNCHANGED <<input, recv, n>>

\* pub fn rcpt_command(i: &[u8])
RcptCommand ==
    /\ op' = "rcpt_command"
    /\ result' = rcpt_command(input)
    /\ UNCHANGED <<input, recv, n>>

\* pub fn validate_address(i: &[u8]) -> bool
ValidateAddress ==
    /\ op' = "validate_address"
    /\ result' = validate_address(input)
    /\ UNCHANGED <<input, recv, n>>

\* s.parse::<AddressLiteral>(): the argument is a &str.
FromStr ==
    /\ Utf8Valid(input)
    /\ op' = "from_str"
    /\ result' = from_str(input)
    /\ UNCHANGED <<input, recv, n>>

\* The caller keeps the value a successful call returned.
KeepValue ==
    /\ op \in {"from_str", "upgrade", "local_part"}
    /\ result.k = "ok"
    /\ recv' = result.val
    /\ op' = "idle"
    /\ result' = <<>>
    /\ UNCHANGED <<input, n>>

\* AddressLiteral::FreeForm(text): built by the caller (the RFC 5322 code)
\* from any text.
MakeFreeForm ==
    /\ Utf8Valid(input)
    /\ recv' = FreeForm(input)
    /\ op' = "idle"
    /\ result' = <<>>
    /\ UNCHANGED <<input, n>>

IsAddressLiteralValue(v) == v.t \in {"IpAddr", "Tagged", "FreeForm"}
IsLocalPartValue(v) == v.t \in {"Atom", "Quoted"}

\* recv.upgrade(): takes &self.
Upgrade ==
    /\ IsAddressLiteralValue(recv)
    /\ op' = "upgrade"
    /\ result' = upgrade(recv)
    /\ UNCHANGED <<input, recv, n>>

\* format!("{}", recv) of an AddressLiteral
RenderLiteral ==
    /\ IsAddressLiteralValue(recv)
    /\ op' = "display"
    /\ result' = Display_AddressLiteral(recv)
    /\ UNCHANGED <<input, recv, n>>

\* format!("{}", recv) of a LocalPart
RenderLocalPart ==
    /\ IsLocalPartValue(recv)
    /\ op' = "display"
    /\ result' = Display_LocalPart(recv)
    /\ UNCHANGED <<input, recv, n>>

\* The local-part rule applied to the buffer.
ParseLocalPart ==
    /\ op' = "local_part"
    /\ result' = local_part(input)
    /\ UNCHANGED <<input, recv, n>>

(***************************************************************************)
(* Letter case: every spelling of the command keywords and of the          *)
(* postmaster path.                                                        *)
(***************************************************************************)
CaseTemplates ==
    { <<77, 65, 73, 76, 32, 70, 82, 79, 77, 58, 60, 62>>,
      <<82, 67, 80, 84, 32, 84, 79, 58, 60, 112, 111, 115, 116, 109, 97, 115, 116, 101, 114, 62>>,
      <<77, 65, 73, 76, 32, 70, 82, 79, 77, 58, 60, 112, 111, 115, 116, 109, 97, 115, 116, 101, 114, 62>>,
      <<82, 67, 80, 84, 32, 84, 79, 58, 60, 62>> }

Upper(c) == IF c \in 97..122 THEN c - 32 ELSE c
Lower(c) == IF c \in 65..90 THEN c + 32 ELSE c

\* The caller writes the next byte of a template in either letter case.
ExtendCase ==
    /\ \E tpl \in CaseTemplates :
          /\ Len(input) < Len(tpl)
          /\ \A j \in 1..Len(input) : Upper(input[j]) = Upper(tpl[j])
          /\ \E c \in {Upper(tpl[Len(input) + 1]), Lower(tpl[Len(input) + 1])} :
                SetInput(Append(input, c))
    /\ UNCHANGED <<recv, n>>

Init ==
    /\ input = <<>>
    /\ recv = NoValue
    /\ op = "idle"
    /\ result = <<>>
    /\ n = 0

NextCase == ExtendCase \/ MailCommand \/ RcptCommand

SpecCase == Init /\ [][NextCase]_vars

(***************************************************************************)
(* Commands with a tail: a complete command, then pieces of parameter      *)
(* text appended to it.                                                    *)
(***************************************************************************)
MaxFrags == 5

MailHeads ==
    { <<77, 65, 73, 76, 32, 70, 82, 79, 77, 58, 60, 97, 64, 98, 46, 99, 111, 109, 62>>,
      <<109, 97, 105, 108, 32, 102, 114, 111, 109, 58, 60, 62>> }

RcptHeads ==
    { <<82, 67, 80, 84, 32, 84, 79, 58, 60, 97, 64, 98, 46, 99, 111, 109, 62>>,
      <<82, 99, 112, 116, 32, 84, 111, 58, 60, 112, 111, 115, 116, 109, 97, 115, 116, 101, 114, 62>> }

\* " ", tab, "extra", "SIZE=1000", "=", "!", "BODY=8BITMIME", "<>"
TailFrags ==
    { <<32>>, <<9>>, <<101, 120, 116, 114, 97>>, <<83, 73, 90, 69, 61, 49, 48, 48, 48>>,
      <<61>>, <<33>>, <<66, 79, 68, 89, 61, 56, 66, 73, 84, 77, 73, 77, 69>>, <<60, 62>> }

InitCmd ==
    /\ input \in MailHeads \cup RcptHeads
    /\ recv = NoValue
    /\ op = "idle"
    /\ result = <<>>
    /\ n = 0

AppendTail ==
    /\ n < MaxFrags
    /\ \E f \in TailFrags : SetInput(input \o f)
    /\ n' = n + 1
    /\ UNCHANGED recv

NextCmd == AppendTail \/ MailCommand \/ RcptCommand

SpecCmd == InitCmd /\ [][NextCmd]_vars

(***************************************************************************)
(* Reference grammar of a parameter list, written from its definition:     *)
(* keyword[=value] items separated by runs of spaces and tabs.             *)
(***************************************************************************)
RefValueByte == (33..126) \ {61}
RefWsp == {32, 9}

IsKeyword(s) == s # <<>> /\ \A j \in 1..Len(s) : s[j] \in AlphaNum
IsValue(s) == s # <<>> /\ \A j \in 1..Len(s) : s[j] \in RefValueByte

IsParam(s) ==
    \/ IsKeyword(s)
    \/ \E j \in 1..Len(s) : s[j] = 61 /\ IsKeyword(Take(s, j - 1)) /\ IsValue(Drop(s, j))

IsParamList(t) ==
    /\ t # <<>>
    /\ t[1] \notin RefWsp
    /\ t[Len(t)] \notin RefWsp
    /\ \A a \in 1..Len(t) : \A b \in a..Len(t) :
          ( /\ \A j \in a..b : t[j] \notin RefWsp
            /\ (a = 1 \/ t[a - 1] \in RefWsp)
            /\ (b = Len(t) \/ t[b + 1] \in RefWsp) )
          => IsParam(SubSeq(t, a, b))

IsPrefix(h, s) == Len(s) >= Len(h) /\ Take(s, Len(h)) = h

\* What follows a complete command is nothing, or one space and a
\* parameter list.
GoodTail(rest) == rest = <<>> \/ (rest[1] = 32 /\ IsParamList(Drop(rest, 1)))

MailExtra == <<77, 65, 73, 76, 32, 70, 82, 79, 77, 58, 60, 97, 64, 98, 46, 99, 111, 109, 62, 32, 101, 120, 116, 114, 97>>

\* C1 (as amended): a command followed by a tail succeeds exactly when the
\* tail is empty or is one space and a list of keyword[=value] parameters
\* separated by spaces or tabs; any other trailing text is a failure.  The
\* bare keyword "extra" is such a parameter: "MAIL FROM:<a@b.com> extra"
\* succeeds with the single parameter ("extra", no value).
C1_TrailingText ==
    /\ op = "mail_command" =>
          /\ \A h \in MailHeads :
                IsPrefix(h, input) => ((result.k = "ok") <=> GoodTail(Drop(input, Len(h))))
          /\ result.k = "ok" => result.rem = <<>>
          /\ input = MailExtra =>
                result = Ok(<<>>, <<ReversePath_Mailbox(Mailbox(Atom(<<97>>), Domain(<<98, 46, 99, 111, 109>>))),
                                   <<EsmtpParam(<<101, 120, 116, 114, 97>>, None)>>>>)
    /\ op = "rcpt_command" =>
          /\ \A h \in RcptHeads :
                IsPrefix(h, input) => ((result.k = "ok") <=> GoodTail(Drop(input, Len(h))))
          /\ result.k = "ok" => result.rem = <<>>

\* C1 witness: trailing text that is not parameter syntax was rejected.
C1_Witness ==
    /\ op = "mail_command"
    /\ input = <<77, 65, 73, 76, 32, 70, 82, 79, 77, 58, 60, 97, 64, 98, 46, 99, 111, 109, 62, 32, 101, 120, 116, 114, 97, 33>>
    /\ result.k = "err"

\* C1 as stated: "MAIL FROM:<a@b.com> extra" is a failure.
C1_Original ==
    (op = "mail_command" /\ input = MailExtra) => result.k # "ok"

CaseEq(a, b) == Len(a) = Len(b) /\ \A j \in 1..Len(a) : Upper(a[j]) = Upper(b[j])

\* C5: in every letter case, "MAIL FROM:<>" is (Null, no parameters) and
\* "RCPT TO:<postmaster>" is (PostMaster, no parameters); mail_command
\* rejects "<postmaster>" and rcpt_command rejects "<>".
C5_SpecialPaths ==
    /\ (op = "mail_command" /\ CaseEq(input, <<77, 65, 73, 76, 32, 70, 82, 79, 77, 58, 60, 62>>))
          => result = Ok(<<>>, <<Null, <<>>>>)
    /\ (op = "rcpt_command" /\ CaseEq(input, <<82, 67, 80, 84, 32, 84, 79, 58, 60, 112, 111, 115, 116, 109, 97, 115, 116, 101, 114, 62>>))
          => result = Ok(<<>>, <<PostMaster, <<>>>>)
    /\ (op = "mail_command" /\ CaseEq(input, <<77, 65, 73, 76, 32, 70, 82, 79, 77, 58, 60, 112, 111, 115, 116, 109, 97, 115, 116, 101, 114, 62>>))
          => result.k = "err"
    /\ (op = "rcpt_command" /\ CaseEq(input, <<82, 67, 80, 84, 32, 84, 79, 58, 60, 62>>))
          => result.k = "err"

\* C5 witness: a mixed-case postmaster command was parsed.
C5_Witness ==
    /\ op = "rcpt_command"
    /\ input = <<114, 67, 112, 84, 32, 116, 79, 58, 60, 80, 111, 83, 116, 77, 97, 83, 116, 69, 114, 62>>
    /\ result.k = "ok"
    /\ result.val[1] = PostMaster

(***************************************************************************)
(* Quoted local parts: parsed, kept, rendered.                             *)
(***************************************************************************)
MaxQuote == 5

\* '"', '\', 'a', ' ', '@'
QuoteBytes == {34, 92, 97, 32, 64}

AppendQuoteByte ==
    /\ n < MaxQuote
    /\ \E c \in QuoteBytes : SetInput(Append(input, c))
    /\ n' = n + 1
    /\ UNCHANGED recv

NextQuote == AppendQuoteByte \/ ParseLocalPart \/ KeepValue \/ RenderLocalPart

SpecQuote == Init /\ [][NextQuote]_vars

\* C3: the rendering of a parsed LocalPart::Quoted(q) is wrapped in double
\* quotes, and the local-part parser reads it back as Quoted(q).
C3_QuotedRoundTrip ==
    (op = "display" /\ recv.t = "Quoted") =>
        /\ Len(result) >= 2
        /\ result[1] = 34
        /\ result[Len(result)] = 34
        /\ local_part(result) = Ok(<<>>, recv)

(***************************************************************************)
(* Address literals: text assembled from pieces of literal syntax, with or *)
(* without the brackets and the mailbox around it.                         *)
(***************************************************************************)
MaxLit == 4

LitSeeds == { <<>>, <<91>>, <<97, 64, 91>> }

\* "IPv6:", "::1", "g", "]", "192.0.2.1", "x400:", "somewhere", "-", "-:"
LitFrags ==
    { <<73, 80, 118, 54, 58>>, <<58, 58, 49>>, <<103>>, <<93>>,
      <<49, 57, 50, 46, 48, 46, 50, 46, 49>>, <<120, 52, 48, 48, 58>>,
      <<115, 111, 109, 101, 119, 104, 101, 114, 101>>, <<45>>, <<45, 58>> }

InitLit ==
    /\ input \in LitSeeds
    /\ recv = NoValue
    /\ op = "idle"
    /\ result = <<>>
    /\ n = 0

\* The text grows until the caller builds a value from it.
AppendLit ==
    /\ n < MaxLit
    /\ recv = NoValue
    /\ \E f \in LitFrags : SetInput(input \o f)
    /\ n' = n + 1
    /\ UNCHANGED recv

NextLit ==
    AppendLit \/ FromStr \/ ValidateAddress \/ MakeFreeForm \/ Upgrade \/ KeepValue

SpecLit == InitLit /\ [][NextLit]_vars

(***************************************************************************)
(* Reference grammar of the three formal literal forms, written from their *)
(* definitions over the whole text.                                        *)
(***************************************************************************)
\* The pieces of s between occurrences of sep.
RECURSIVE Split(_, _)
Split(s, sep) ==
    LET m == PrefixLen(Byte \ {sep}, s)
    IN  IF m = Len(s) THEN <<s>> ELSE <<Take(s, m)>> \o Split(Drop(s, m + 1), sep)

AllIn(s, S) == \A j \in 1..Len(s) : s[j] \in S

IsOctetText(o) == Len(o) \in 1..3 /\ AllIn(o, Digit) /\ DecValue(o) <= 255

IsV4Content(t) ==
    LET parts == Split(t, 46)
    IN  Len(parts) = 4 /\ \A j \in 1..4 : IsOctetText(parts[j])

V4Octets(t) == LET parts == Split(t, 46) IN [j \in 1..4 |-> DecValue(parts[j])]

IPv6Tag == <<73, 80, 118, 54, 58>>

IsV6Content(t) ==
    /\ Len(t) > 5
    /\ CaseEq(Take(t, 5), IPv6Tag)
    /\ Ipv6Addr_from_str(Drop(t, 5)).k = "ok"

RefDcontent == (33..126) \ {91, 92, 93}
RefLdh == AlphaNum \cup {45}

IsTaggedContent(t) ==
    \E c \in 1..Len(t) :
        /\ t[c] = 58
        /\ c > 1
        /\ AllIn(Take(t, c - 1), RefLdh)
        /\ t[c - 1] # 45
        /\ c < Len(t)
        /\ AllIn(Drop(t, c), RefDcontent)

IsFormalContent(t) == IsV4Content(t) \/ IsV6Content(t) \/ IsTaggedContent(t)

Bracketed(s) == Len(s) >= 2 /\ s[1] = 91 /\ s[Len(s)] = 93
Inside(s) == SubSeq(s, 2, Len(s) - 1)

\* C8: upgrade of FreeForm(t) returns Ok(parsed) only when the whole of t is
\* one of the IPv4 / IPv6 / tagged forms (it then agrees with parsing
\* "[" t "]"), otherwise Err(()), and never a FreeForm; on any other
\* receiver it is Err(()); the receiver is the same after the call.
\* FreeForm("192.0.2.1") upgrades to the IPv4 address, FreeForm("somewhere")
\* does not.
C8_UpgradeState ==
    op = "upgrade" =>
        /\ result.k \in {"ok", "err"}
        /\ recv.t # "FreeForm" => result = Err
        /\ recv.t = "FreeForm" =>
              /\ result = from_str(<<91>> \o recv.s \o <<93>>)
              /\ result.k = "ok" => (result.val.t # "FreeForm" /\ IsFormalContent(recv.s))
              /\ ~IsFormalContent(recv.s) => result = Err
        /\ recv = FreeForm(<<49, 57, 50, 46, 48, 46, 50, 46, 49>>) => result = [k |-> "ok", val |-> IpAddr_V4(<<192, 0, 2, 1>>)]
        /\ recv = FreeForm(<<115, 111, 109, 101, 119, 104, 101, 114, 101>>) => result = Err

C8_Upgrade == []C8_UpgradeState /\ [][op' = "upgrade" => recv' = recv]_vars

\* C8 witness: a free-form literal with text after a complete IPv4 address
\* was refused.
C8_Witness ==
    /\ op = "upgrade"
    /\ recv = FreeForm(<<49, 57, 50, 46, 48, 46, 50, 46, 49, 103>>)
    /\ result = Err

\* C9 (as amended): from_str of "[" t "]" where t is none of the IPv4, IPv6
\* and tagged forms is Err(()); from_str never returns a FreeForm; a text
\* without its opening or closing bracket is Err(()) too.
C9_NoFreeForm ==
    op = "from_str" =>
        /\ result.k \in {"ok", "err"}
        /\ result.k = "ok" => result.val.t \in {"IpAddr", "Tagged"}
        /\ (Bracketed(input) /\ ~IsFormalContent(Inside(input))) => result = Err
        /\ ~Bracketed(input) => result = Err

\* C9 witness: bracketed text of no formal form was refused.
C9_Witness ==
    /\ op = "from_str"
    /\ input = <<91, 115, 111, 109, 101, 119, 104, 101, 114, 101, 93>>
    /\ result = Err

\* C9 as stated: bracketed text of no formal form is kept as FreeForm.
C9_Original ==
    (op = "from_str" /\ Bracketed(input) /\ ~IsFormalContent(Inside(input)))
        => result = [k |-> "ok", val |-> FreeForm(Inside(input))]

RefIpv6Byte == HexDigit \cup {58, 46}

\* "IPv6:", a valid IPv6 address, then literal content that starts with a
\* byte an address cannot hold.
V6ThenMore(t) ==
    /\ Len(t) > 5
    /\ CaseEq(Take(t, 5), IPv6Tag)
    /\ LET r == Drop(t, 5)
           m == PrefixLen(RefIpv6Byte, r)
       IN  /\ m >= 1
           /\ m < Len(r)
           /\ Ipv6Addr_from_str(Take(r, m)).k = "ok"
           /\ AllIn(Drop(r, m), RefDcontent)

MailboxHead == <<97, 64>>

\* C10: the literal alternation commits to the first alternative that
\* matches a prefix.  For t = "IPv6:" + a valid address + further literal
\* content, which the tagged form alone reads whole as Tagged("IPv6", ...),
\* from_str("[" t "]") fails, FreeForm(t).upgrade() is Err(()) and
\* validate_address("a@[" t "]") is false.
C10_CommittedChoice ==
    /\ (op = "from_str" /\ Bracketed(input) /\ V6ThenMore(Inside(input))) =>
          /\ result = Err
          /\ general_address_literal(Inside(input))
                = Ok(<<>>, Tagged(Take(Inside(input), 4), Drop(Inside(input), 5)))
    /\ (op = "upgrade" /\ recv.t = "FreeForm" /\ V6ThenMore(recv.s)) => result = Err
    /\ (op = "validate_address" /\ IsPrefix(MailboxHead, input)
          /\ Bracketed(Drop(input, 2)) /\ V6ThenMore(Inside(Drop(input, 2))))
          => result = [k |-> "ok", val |-> FALSE]

\* C10 witness: the address with text after a complete IPv6 address was
\* refused.
C10_Witness ==
    /\ op = "validate_address"
    /\ input = <<97, 64, 91, 73, 80, 118, 54, 58, 58, 58, 49, 103, 93>>
    /\ result = [k |-> "ok", val |-> FALSE]

(***************************************************************************)
(* Dotted-decimal literals: "[", octet texts separated by dots, "]".       *)
(***************************************************************************)
MaxOctets == 5

\* "0", "007", "1", "2", "192", "255", "256", "1234"
OctetTexts ==
    { <<48>>, <<48, 48, 55>>, <<49>>, <<50>>, <<49, 57, 50>>,
      <<50, 53, 53>>, <<50, 53, 54>>, <<49, 50, 51, 52>> }

InitV4 ==
    /\ input = <<91>>
    /\ recv = NoValue
    /\ op = "idle"
    /\ result = <<>>
    /\ n = 0

Last(s) == s[Len(s)]

AppendOctet ==
    /\ n < MaxOctets
    /\ Last(input) \in {91, 46}
    /\ \E o \in OctetTexts : SetInput(input \o o)
    /\ n' = n + 1
    /\ UNCHANGED recv

AppendDot ==
    /\ Last(input) \in Digit
    /\ SetInput(Append(input, 46))
    /\ UNCHANGED <<recv, n>>

CloseBracket ==
    /\ Last(input) \in Digit
    /\ SetInput(Append(input, 93))
    /\ UNCHANGED <<recv, n>>

NextV4 ==
    AppendOctet \/ AppendDot \/ CloseBracket \/ FromStr \/ KeepValue \/ RenderLiteral

SpecV4 == InitV4 /\ [][NextV4]_vars

IsV4Value(v) == v.t = "IpAddr" /\ v.v = "V4"

NoLeadingZero(o) == Len(o) = 1 \/ o[1] # 48

\* C7: "[a.b.c.d]" with four octets of 1 to 3 digits and value 0..255
\* parses to the IPv4 address (a, b, c, d), leading zeros included; with an
\* octet above 255 or a number of octets other than four the text is not
\* parsed as an IPv4 literal; the value parsed from a text written without
\* leading zeros, such as "[192.0.2.1]", renders as that text.
C7_Ipv4Literal ==
    /\ op = "from_str" =>
          /\ (Bracketed(input) /\ IsV4Content(Inside(input)))
                => result = [k |-> "ok", val |-> IpAddr_V4(V4Octets(Inside(input)))]
          /\ ~(Bracketed(input) /\ IsV4Content(Inside(input)))
                => ~(result.k = "ok" /\ IsV4Value(result.val))
          /\ input = <<91, 49, 57, 50, 46, 48, 46, 50, 46, 49, 93>>
                => result = [k |-> "ok", val |-> IpAddr_V4(<<192, 0, 2, 1>>)]
    /\ (op = "display" /\ IsV4Value(recv) /\ Bracketed(input)
          /\ IsV4Content(Inside(input)) /\ V4Octets(Inside(input)) = recv.a
          /\ \A j \in 1..4 : NoLeadingZero(Split(Inside(input), 46)[j]))
          => result = input

\* C7 witness: the value parsed from "[192.0.2.1]" was rendered back.
C7_Witness ==
    /\ op = "display"
    /\ input = <<91, 49, 57, 50, 46, 48, 46, 50, 46, 49, 93>>
    /\ recv = IpAddr_V4(<<192, 0, 2, 1>>)
    /\ result = input

(***************************************************************************)
(* Addresses: well-formed addresses of every kind, and every text within   *)
(* MaxEdits single-byte insertions and deletions of one.                   *)
(***************************************************************************)
MaxEdits == 2

\* a.b@c-d.e   "a\"b"@c   a@[1.2.3.4]   a@[IPv6:::1]   a@[x:y]
AddrSeeds ==
    { <<>>,
      <<97, 46, 98, 64, 99, 45, 100, 46, 101>>,
      <<34, 97, 92, 34, 98, 34, 64, 99>>,
      <<97, 64, 91, 49, 46, 50, 46, 51, 46, 52, 93>>,
      <<97, 64, 91, 73, 80, 118, 54, 58, 58, 58, 49, 93>>,
      <<97, 64, 91, 120, 58, 121, 93>> }

\* a . - @ " \ [ ] : space
EditBytes == {97, 46, 45, 64, 34, 92, 91, 93, 58, 32}

InitAddr ==
    /\ input \in AddrSeeds
    /\ recv = NoValue
    /\ op = "idle"
    /\ result = <<>>
    /\ n = 0

InsertByte ==
    /\ n < MaxEdits
    /\ \E pos \in 0..Len(input) : \E c \in EditBytes :
          SetInput(Take(input, pos) \o <<c>> \o Drop(input, pos))
    /\ n' = n + 1
    /\ UNCHANGED recv

DeleteByte ==
    /\ n < MaxEdits
    /\ \E pos \in 1..Len(input) :
          SetInput(Take(input, pos - 1) \o Drop(input, pos))
    /\ n' = n + 1
    /\ UNCHANGED recv

NextAddr == InsertByte \/ DeleteByte \/ ValidateAddress

SpecAddr == InitAddr /\ [][NextAddr]_vars

(***************************************************************************)
(* Reference grammar of a mailbox, written from its definition over the    *)
(* whole text.                                                             *)
(***************************************************************************)
IsDotString(s) ==
    /\ s # <<>>
    /\ AllIn(s, AText \cup {46})
    /\ s[1] # 46
    /\ s[Len(s)] # 46
    /\ \A j \in 1..(Len(s) - 1) : ~(s[j] = 46 /\ s[j + 1] = 46)

\* The number of backslashes that end just before position j of u.
BackslashesBefore(u, j) ==
    LET stop == {l \in 1..(j - 1) : u[l] # 92}
    IN  IF stop = {} THEN j - 1 ELSE j - 1 - (CHOOSE l \in stop : \A x \in stop : x <= l)

\* Position j of u holds a backslash that escapes the byte after it.
Escapes(u, j) == u[j] = 92 /\ BackslashesBefore(u, j) % 2 = 0

RefQtext == (32..126) \ {34, 92}

IsQuotedString(s) ==
    /\ Len(s) >= 2
    /\ s[1] = 34
    /\ s[Len(s)] = 34
    /\ LET u == SubSeq(s, 2, Len(s) - 1)
       IN  \A j \in 1..Len(u) :
              IF Escapes(u, j) THEN j < Len(u) /\ u[j + 1] \in 32..126
              ELSE IF j > 1 /\ Escapes(u, j - 1) THEN TRUE
              ELSE u[j] \in RefQtext

IsLocalPart(s) == IsDotString(s) \/ IsQuotedString(s)

IsLabel(l) ==
    /\ l # <<>>
    /\ AllIn(l, RefLdh)
    /\ l[1] # 45
    /\ l[Len(l)] # 45

IsDomain(s) == LET labels == Split(s, 46) IN \A j \in 1..Len(labels) : IsLabel(labels[j])

IsAddressLiteral(s) == Bracketed(s) /\ IsFormalContent(Inside(s))

MatchesMailbox(s) ==
    \E j \in 1..Len(s) :
        /\ s[j] = 64
        /\ IsLocalPart(Take(s, j - 1))
        /\ (IsDomain(Drop(s, j)) \/ IsAddressLiteral(Drop(s, j)))

\* The content starts with "IPv6:" and its longest run of address bytes is
\* a valid IPv6 address: the IPv6 alternative matches here.
V6Commits(t) ==
    /\ Len(t) > 5
    /\ CaseEq(Take(t, 5), IPv6Tag)
    /\ LET r == Drop(t, 5)
           m == PrefixLen(RefIpv6Byte, r)
       IN  m >= 1 /\ Ipv6Addr_from_str(Take(r, m)).k = "ok"

IsCommittedLiteral(s) ==
    /\ Bracketed(s)
    /\ \/ IsV4Content(Inside(s))
       \/ IsV6Content(Inside(s))
       \/ (IsTaggedContent(Inside(s)) /\ ~V6Commits(Inside(s)))

MatchesMailboxCommitted(s) ==
    \E j \in 1..Len(s) :
        /\ s[j] = 64
        /\ IsLocalPart(Take(s, j - 1))
        /\ (IsDomain(Drop(s, j)) \/ IsCommittedLiteral(Drop(s, j)))

\* C2 (as amended): validate_address(s) is true exactly when the whole of s
\* is local-part "@" domain-part, with one exception: bracketed content
\* that starts with "IPv6:" followed by a run of hex-digit, ':' and '.'
\* bytes forming a valid IPv6 address is read as an IPv6 literal only, so it
\* is rejected when more content follows that run, although the tagged form
\* matches it.  A match of a proper prefix gives false; the empty input is
\* false.
C2_ValidateAddress ==
    op = "validate_address" =>
        /\ result = [k |-> "ok", val |-> MatchesMailboxCommitted(input)]
        /\ input = <<>> => result.val = FALSE

\* C2 witness: an address followed by one more byte was refused.
C2_Witness ==
    /\ op = "validate_address"
    /\ input = <<97, 64, 91, 49, 46, 50, 46, 51, 46, 52, 93, 97>>
    /\ result = [k |-> "ok", val |-> FALSE]

\* C2 as stated: validate_address(s) is true exactly when the whole of s
\* matches the mailbox grammar, the tagged literal form included.
C2_Original ==
    op = "validate_address" => result = [k |-> "ok", val |-> MatchesMailbox(input)]

HasAt(s) == \E j \in 1..Len(s) : s[j] = 64

\* The text after the last '@'.
AfterLastAt(s) == Drop(s, CHOOSE j \in 1..Len(s) : s[j] = 64 /\ \A l \in (j + 1)..Len(s) : s[l] # 64)

\* Some label of d ends in a hyphen.
HyphenEnd(d) == \E j \in 1..Len(d) : d[j] = 45 /\ (j = Len(d) \/ d[j + 1] = 46)

\* The text after the last '@' is written like a domain (label bytes and
\* dots only) and holds a label that ends in a hyphen.
HyphenDomain(s) ==
    /\ HasAt(s)
    /\ AllIn(AfterLastAt(s), RefLdh \cup {46})
    /\ HyphenEnd(AfterLastAt(s))

\* The address as the path of each command.
AsMailFrom(s) == <<77, 65, 73, 76, 32, 70, 82, 79, 77, 58, 60>> \o s \o <<62>>
AsRcptTo(s) == <<82, 67, 80, 84, 32, 84, 79, 58, 60>> \o s \o <<62>>

GoodLabels(d) ==
    LET labels == Split(d, 46)
    IN  \A j \in 1..Len(labels) :
           /\ labels[j] # <<>>
           /\ AllIn(labels[j], RefLdh)
           /\ labels[j][1] \in AlphaNum
           /\ Last(labels[j]) # 45

\* C6: an address whose domain holds a label ending in a hyphen is never
\* accepted: the domain rule does not match the whole of it, the address
\* literal rule fails on it, validate_address is false and both commands
\* fail on a path that holds it; and every Domain of an accepted address,
\* also as the commands return it, is made of dot-separated labels that
\* start with an alphanumeric byte and do not end in '-'.
C6_HyphenLabel ==
    op = "validate_address" =>
        /\ HyphenDomain(input) =>
              /\ result = [k |-> "ok", val |-> FALSE]
              /\ exact(domain(AfterLastAt(input))).k = "err"
              /\ address_literal(AfterLastAt(input)).k = "err"
              /\ mail_command(AsMailFrom(input)).k = "err"
              /\ rcpt_command(AsRcptTo(input)).k = "err"
        /\ result = [k |-> "ok", val |-> TRUE] =>
              LET m == mail_command(AsMailFrom(input))
                  r == rcpt_command(AsRcptTo(input))
              IN  /\ m.k = "ok"
                  /\ r.k = "ok"
                  /\ m.val[1] = ReversePath_Mailbox(mailbox(input).val)
                  /\ r.val[1] = Path_Mailbox(mailbox(input).val)
                  /\ m.val[1].m.dp.t = "Domain" => GoodLabels(m.val[1].m.dp.s)

\* C6 witness: an address with a label ending in a hyphen was refused.
C6_Witness ==
    /\ op = "validate_address"
    /\ input = <<97, 46, 98, 64, 99, 45, 100, 45, 46, 101>>
    /\ result = [k |-> "ok", val |-> FALSE]

(***************************************************************************)
(* Arbitrary bytes: a buffer that starts as the beginning of a command, an *)
(* address or a literal and grows by bytes that include NUL, non-ASCII     *)
(* bytes, the escape and the delimiters.                                   *)
(***************************************************************************)
MaxBytes == 3

ByteSeeds ==
    { <<>>,
      <<77, 65, 73, 76, 32, 70, 82, 79, 77, 58, 60>>,
      <<82, 67, 80, 84, 32, 84, 79, 58, 60>>,
      <<77, 65, 73, 76, 32, 70, 82, 79, 77, 58, 60, 62, 32, 97, 61>>,
      <<97, 64, 91>>,
      <<91>>,
      <<91, 73, 80, 118, 54, 58>>,
      <<34>>,
      <<91, 49, 46, 50, 46, 51>> }

\* NUL, 0xC3, 0xA9, 0xFF, \ " ] @ a 1 : .
NastyBytes == {0, 195, 169, 255, 92, 34, 93, 64, 97, 49, 58, 46}

InitBytes ==
    /\ input \in ByteSeeds
    /\ recv = NoValue
    /\ op = "idle"
    /\ result = <<>>
    /\ n = 0

\* The buffer grows until the caller builds a value from it.
AppendByte ==
    /\ n < MaxBytes
    /\ recv = NoValue
    /\ \E b \in NastyBytes : SetInput(Append(input, b))
    /\ n' = n + 1
    /\ UNCHANGED recv

NextBytes ==
    \/ AppendByte \/ MailCommand \/ RcptCommand \/ ValidateAddress
    \/ FromStr \/ MakeFreeForm \/ Upgrade

SpecBytes == InitBytes /\ [][NextBytes]_vars

\* The text the last operation worked on.
Subject == IF op = "upgrade" THEN recv.s ELSE input

\* The last operation returned its ordinary failure.
NoMatch == IF op = "validate_address" THEN result.val = FALSE ELSE result.k = "err"

Has(s, c) == \E j \in 1..Len(s) : s[j] = c

\* C4: no public operation aborts, whatever the bytes; on empty input, on
\* input with a non-ASCII byte, on an address or literal that ends in a
\* backslash, on a literal whose bracket is never closed and on an address
\* whose quote is never closed the operation returns its ordinary failure.
C4_NoAbort ==
    op # "idle" =>
        /\ result.k \in {"ok", "err"}
        /\ Subject = <<>> => NoMatch
        /\ (\E j \in 1..Len(Subject) : Subject[j] >= 128) => NoMatch
        /\ (op \in {"validate_address", "from_str", "upgrade"} /\ Subject # <<>>
              /\ Last(Subject) = 92) => NoMatch
        /\ (op = "from_str" /\ ~Has(input, 93)) => NoMatch
        /\ (op = "validate_address" /\ IsPrefix(<<97, 64, 91>>, input) /\ ~Has(input, 93))
              => NoMatch
        /\ (op = "validate_address" /\ input # <<>> /\ input[1] = 34
              /\ ~Has(Drop(input, 1), 34)) => NoMatch

\* C4 witness: a quoted local part that ends in a backslash was refused.
C4_Witness ==
    /\ op = "validate_address"
    /\ input = <<34, 92>>
    /\ result = [k |-> "ok", val |-> FALSE]

====
